---- MODULE Spec2Model ----
(***************************************************************************)
(* A model of the two utilities of src/zavy.py and of the path-            *)
(* registration step that uses one of them:                                *)
(*   get_value_at_index  (lines 8-29)                                      *)
(*   find_path           (lines 32-55)                                     *)
(*   add_extra_model_paths (lines 68-85)                                   *)
(* Paths are strings; a string is modelled as the sequence of its          *)
(* components and separators ("/", a name, ".", ".."), which is all that   *)
(* os.path.dirname, os.path.join and path resolution look at.              *)
(***************************************************************************)
EXTENDS Integers, Sequences, FiniteSets, TLC

\* ------------------------------------------------------------ bounds
MaxDepth == 2        \* deepest directory of the tree
MaxPathLen == 4      \* longest start string, in tokens
MaxUnreadable == 1   \* directories without read permission
MaxCalls == 2        \* consecutive find_path calls with the same arguments
MaxLen == 2          \* longest ordered sequence handed to get_value_at_index

\* ------------------------------------------------------------ path strings
Slash == "/"
Dot == "."
DotDot == ".."
DirName == "ComfyUI"                    \* the directory name of line 62
FileName == "extra_model_paths.yaml"    \* the file name of line 80
Names == {DirName, FileName}
Tokens == {Slash, DirName, Dot, DotDot}

None == <<"None">>
NoDir == <<"ENOENT">>

Max(S) == CHOOSE x \in S : \A y \in S : y <= x

\* A string is a token sequence in which no two slash-free runs touch.
WellFormed(p) == \A i \in 1..(Len(p) - 1) : p[i] = Slash \/ p[i + 1] = Slash

PathStrings ==
    { p \in UNION { [1..n -> Tokens] : n \in 1..MaxPathLen } : WellFormed(p) }

\* posixpath.dirname: everything up to the last "/", trailing slashes
\* stripped unless that leaves nothing but slashes.
LastSlash(p) ==
    LET S == { i \in 1..Len(p) : p[i] = Slash }
    IN  IF S = {} THEN 0 ELSE Max(S)

AllSlashes(h) == \A i \in 1..Len(h) : h[i] = Slash

RECURSIVE RStripSlash(_)
RStripSlash(h) ==
    IF h # <<>> /\ h[Len(h)] = Slash
    THEN RStripSlash(SubSeq(h, 1, Len(h) - 1))
    ELSE h

Dirname(p) ==
    LET head == SubSeq(p, 1, LastSlash(p))
    IN  IF head # <<>> /\ ~AllSlashes(head) THEN RStripSlash(head) ELSE head

\* posixpath.join(path, name) for a name that does not start with "/".
Join(p, n) ==
    IF p = <<>> \/ p[Len(p)] = Slash THEN Append(p, n) ELSE p \o <<Slash, n>>

\* ------------------------------------------------------------ filesystem
\* A directory is the sequence of names leading to it from the root.
Chain(k) == [i \in 1..k |-> DirName]

Parent(d) == IF d = <<>> THEN d ELSE SubSeq(d, 1, Len(d) - 1)

FileSystems ==
    { [dirs |-> { Chain(k) : k \in 0..n }, files |-> fl, noread |-> nr] :
        n \in 0..MaxDepth,
        fl \in SUBSET { Append(Chain(k), FileName) : k \in 0..MaxDepth },
        nr \in SUBSET { Chain(k) : k \in 0..MaxDepth } }

ValidFileSystem(f) ==
    /\ \A x \in f.files : Parent(x) \in f.dirs
    /\ f.noread \subseteq f.dirs
    /\ Cardinality(f.noread) <= MaxUnreadable

\* The names os.listdir reports for directory d.
Entries(f, d) == { n \in Names : Append(d, n) \in (f.dirs \cup f.files) }

\* Path resolution as the kernel does it for os.listdir(path).
RECURSIVE Walk(_, _, _)
Walk(f, d, comps) ==
    IF comps = <<>> THEN d
    ELSE LET c == Head(comps)
         IN  IF c = Slash \/ c = Dot THEN Walk(f, d, Tail(comps))
             ELSE IF c = DotDot THEN Walk(f, Parent(d), Tail(comps))
             ELSE IF Append(d, c) \in f.dirs THEN Walk(f, Append(d, c), Tail(comps))
             ELSE NoDir

Resolve(f, c, p) ==
    IF p = <<>> THEN NoDir
    ELSE Walk(f, IF p[1] = Slash THEN <<>> ELSE c, p)

\* os.getcwd(): the absolute, normalised string of the working directory.
Getcwd(c) ==
    IF c = <<>> THEN <<Slash>>
    ELSE [i \in 1..(2 * Len(c)) |-> IF i % 2 = 1 THEN Slash ELSE c[i \div 2]]

\* ------------------------------------------------------------ state
VARIABLES
    fs, cwd,            \* the directory tree and the process's working directory
    fs0, cwd0,          \* both as they were before the first call
    importable,         \* the modules "from ... import" can find
    caller,             \* "direct" or "add_extra_model_paths"
    name, start,        \* the arguments of the outermost find_path call
    path,               \* find_path's parameter in the innermost frame
    pc,                 \* "idle", "call", "list", "parent", "done"
    frames,             \* active find_path frames
    outcome, result, error,   \* how the outermost call ended
    listed,             \* the strings handed to os.listdir, in order
    calls, first,       \* calls made so far and how the first one ended
    addPc, loader, loaderCalls,   \* add_extra_model_paths
    stdout,             \* what print wrote
    obj, index,         \* the arguments of get_value_at_index
    gpc, gout, fallbackTried      \* its position and how it ended

findVars == <<fs, cwd, fs0, cwd0, importable, caller, name, start, path, pc,
              frames, outcome, result, error, listed, calls, first, addPc,
              loader, loaderCalls, stdout>>
getVars == <<obj, index, gpc, gout, fallbackTried>>
vars == <<findVars, getVars>>

\* ------------------------------------------------------------ find_path
NoError == "none"
NoResult == <<"unset">>
NotCalled == [outcome |-> "none", result |-> NoResult, error |-> NoError]

\* os.listdir(path): the error it raises, or "none".
ListdirError(f, c, p) ==
    LET d == Resolve(f, c, p)
    IN  IF d = NoDir THEN "FileNotFoundError"
        ELSE IF d \in f.noread THEN "PermissionError"
        ELSE NoError

\* os.listdir(path) when it raises nothing.
Listdir(f, c, p) == Entries(f, Resolve(f, c, p))

\* Lines 32, 38-39: a frame is entered; a missing path becomes os.getcwd().
FindPathEnter ==
    /\ pc = "call"
    /\ path' = IF path = None THEN Getcwd(cwd) ELSE path
    /\ frames' = frames + 1
    /\ pc' = "list"
    /\ UNCHANGED <<fs, cwd, fs0, cwd0, importable, caller, name, start, outcome,
                   result, error, listed, calls, first, addPc, loader,
                   loaderCalls, stdout, getVars>>

\* Lines 42-45 with a try/except around the listing that treats an unreadable
\* directory as an empty one.
ListDirSkipUnreadable ==
    /\ pc = "list"
    /\ listed' = Append(listed, path)
    /\ IF ListdirError(fs, cwd, path) = NoError /\ name \in Listdir(fs, cwd, path)
       THEN /\ result' = Join(path, name)
            /\ outcome' = "returned"
            /\ stdout' = Append(stdout, <<"found", name, Join(path, name)>>)
            /\ pc' = "done"
            /\ frames' = 0
            /\ UNCHANGED error
       ELSE /\ pc' = "parent"
            /\ UNCHANGED <<outcome, result, error, frames, stdout>>
    /\ UNCHANGED <<fs, cwd, fs0, cwd0, importable, caller, name, start, path,
                   calls, first, addPc, loader, loaderCalls, getVars>>

\* Lines 42-45: the directory is listed; an error of os.listdir leaves every
\* frame, a match is reported and returned through every frame.
ListDir ==
    /\ pc = "list"
    /\ listed' = Append(listed, path)
    /\ IF ListdirError(fs, cwd, path) # NoError
       THEN /\ outcome' = "raised"
            /\ error' = ListdirError(fs, cwd, path)
            /\ pc' = "done"
            /\ frames' = 0
            /\ UNCHANGED <<result, stdout>>
       ELSE IF name \in Listdir(fs, cwd, path)
       THEN /\ result' = Join(path, name)
            /\ outcome' = "returned"
            /\ stdout' = Append(stdout, <<"found", name, Join(path, name)>>)
            /\ pc' = "done"
            /\ frames' = 0
            /\ UNCHANGED error
       ELSE /\ pc' = "parent"
            /\ UNCHANGED <<outcome, result, error, frames, stdout>>
    /\ UNCHANGED <<fs, cwd, fs0, cwd0, importable, caller, name, start, path,
                   calls, first, addPc, loader, loaderCalls, getVars>>

\* Lines 48-55 with the ascent done by os.chdir("..") and a fresh os.getcwd().
AscendChdir ==
    /\ pc = "parent"
    /\ IF Dirname(path) = path
       THEN /\ result' = None
            /\ outcome' = "returned"
            /\ pc' = "done"
            /\ frames' = 0
            /\ UNCHANGED <<path, cwd>>
       ELSE /\ cwd' = Parent(cwd)
            /\ path' = Dirname(path)
            /\ pc' = "call"
            /\ UNCHANGED <<outcome, result, frames>>
    /\ UNCHANGED <<fs, fs0, cwd0, importable, caller, name, start, error,
                   listed, calls, first, addPc, loader, loaderCalls, stdout,
                   getVars>>

\* Lines 48-55: the parent string is computed; the search ends with None when
\* it equals the current string, and recurses on it otherwise.
Ascend ==
    /\ pc = "parent"
    /\ IF Dirname(path) = path
       THEN /\ result' = None
            /\ outcome' = "returned"
            /\ pc' = "done"
            /\ frames' = 0
            /\ UNCHANGED path
       ELSE /\ path' = Dirname(path)
            /\ pc' = "call"
            /\ UNCHANGED <<outcome, result, frames>>
    /\ UNCHANGED <<fs, cwd, fs0, cwd0, importable, caller, name, start, error,
                   listed, calls, first, addPc, loader, loaderCalls, stdout,
                   getVars>>

\* A caller's find_path(name, start): the first call, and the same call again
\* once the previous one has ended.
FindPathCall ==
    /\ caller = "direct"
    /\ \/ pc = "idle" /\ calls = 0 /\ UNCHANGED first
       \/ /\ pc = "done" /\ calls >= 1 /\ calls < MaxCalls
          /\ first' = IF calls = 1
                      THEN [outcome |-> outcome, result |-> result, error |-> error]
                      ELSE first
    /\ calls' = calls + 1
    /\ path' = start
    /\ pc' = "call"
    /\ frames' = 0
    /\ outcome' = "none"
    /\ result' = NoResult
    /\ error' = NoError
    /\ listed' = <<>>
    /\ UNCHANGED <<fs, cwd, fs0, cwd0, importable, caller, name, start, addPc,
                   loader, loaderCalls, stdout, getVars>>

\* ------------------------------------------------------------ add_extra_model_paths
\* Lines 72-78: load_extra_path_config comes from main, or else from
\* utils.extra_config; when neither imports, the ImportError leaves the step.
AddImport ==
    /\ caller = "add_extra_model_paths"
    /\ addPc = "import"
    /\ IF "main" \in importable
       THEN loader' = "main" /\ addPc' = "search" /\ UNCHANGED stdout
       ELSE /\ stdout' = Append(stdout, <<"Could not import load_extra_path_config">>)
            /\ IF "utils.extra_config" \in importable
               THEN loader' = "utils.extra_config" /\ addPc' = "search"
               ELSE loader' = "none" /\ addPc' = "raised"
    /\ UNCHANGED <<fs, cwd, fs0, cwd0, importable, caller, name, start, path, pc,
                   frames, outcome, result, error, listed, calls, first,
                   loaderCalls, getVars>>

\* Line 80: find_path("extra_model_paths.yaml") is called without a path.
AddSearch ==
    /\ caller = "add_extra_model_paths"
    /\ addPc = "search"
    /\ pc = "idle"
    /\ name' = FileName
    /\ start' = None
    /\ path' = None
    /\ pc' = "call"
    /\ calls' = calls + 1
    /\ addPc' = "wait"
    /\ UNCHANGED <<fs, cwd, fs0, cwd0, importable, caller, frames, outcome,
                   result, error, listed, first, loader, loaderCalls, stdout,
                   getVars>>

\* Lines 82-85 with the loader handed the name searched for.
AddFinishName ==
    /\ caller = "add_extra_model_paths"
    /\ addPc = "wait"
    /\ pc = "done"
    /\ IF outcome = "raised"
       THEN addPc' = "raised" /\ UNCHANGED <<loaderCalls, stdout>>
       ELSE IF result # None
       THEN /\ loaderCalls' = Append(loaderCalls, <<name>>)
            /\ addPc' = "done"
            /\ UNCHANGED stdout
       ELSE /\ stdout' = Append(stdout, <<"Could not find the extra_model_paths config file.">>)
            /\ addPc' = "done"
            /\ UNCHANGED loaderCalls
    /\ UNCHANGED <<fs, cwd, fs0, cwd0, importable, caller, name, start, path, pc,
                   frames, outcome, result, error, listed, calls, first, loader,
                   getVars>>

\* Lines 80-85: an error of the search leaves the step; a path is handed to
\* the loader; None is reported.
AddFinish ==
    /\ caller = "add_extra_model_paths"
    /\ addPc = "wait"
    /\ pc = "done"
    /\ IF outcome = "raised"
       THEN addPc' = "raised" /\ UNCHANGED <<loaderCalls, stdout>>
       ELSE IF result # None
       THEN /\ loaderCalls' = Append(loaderCalls, result)
            /\ addPc' = "done"
            /\ UNCHANGED stdout
       ELSE /\ stdout' = Append(stdout, <<"Could not find the extra_model_paths config file.">>)
            /\ addPc' = "done"
            /\ UNCHANGED loaderCalls
    /\ UNCHANGED <<fs, cwd, fs0, cwd0, importable, caller, name, start, path, pc,
                   frames, outcome, result, error, listed, calls, first, loader,
                   getVars>>

\* ------------------------------------------------------------ specification of the search
\* The start strings of a direct call: None, or a string naming a directory.
Starts(f, c) == { p \in PathStrings : Resolve(f, c, p) # NoDir } \cup {None}

GetIdle ==
    /\ obj = [kind |-> "atom", v |-> "unused"]
    /\ index = 0
    /\ gpc = "idle"
    /\ gout = [kind |-> "none"]
    /\ fallbackTried = FALSE

InitFind ==
    /\ fs \in { f \in FileSystems : ValidFileSystem(f) }
    /\ cwd \in fs.dirs
    /\ fs0 = fs
    /\ cwd0 = cwd
    /\ caller \in {"direct", "add_extra_model_paths"}
    /\ IF caller = "direct"
       THEN /\ name \in Names
            /\ start \in Starts(fs, cwd)
            /\ importable = {}
            /\ addPc = "idle"
       ELSE /\ name = FileName
            /\ start = None
            /\ importable \in SUBSET {"main", "utils.extra_config"}
            /\ addPc = "import"
    /\ path = None
    /\ pc = "idle"
    /\ frames = 0
    /\ outcome = "none"
    /\ result = NoResult
    /\ error = NoError
    /\ listed = <<>>
    /\ calls = 0
    /\ first = NotCalled
    /\ loader = "none"
    /\ loaderCalls = <<>>
    /\ stdout = <<>>
    /\ GetIdle

NextFind ==
    \/ FindPathCall
    \/ FindPathEnter
    \/ ListDir
    \/ Ascend
    \/ AddImport
    \/ AddSearch
    \/ AddFinish

SpecFind == InitFind /\ [][NextFind]_vars

\* ------------------------------------------------------------ get_value_at_index
\* Values: atoms, ordered sequences, and mappings with integer keys and
\* string keys.
Atoms == { [kind |-> "atom", v |-> a] : a \in {"v1", "v2"} }
Missing == [kind |-> "missing"]

SeqsOf(S) == UNION { [1..n -> S] : n \in 0..MaxLen }
PartialFns(K, V) == UNION { [D -> V] : D \in SUBSET K }

Sequences == { [kind |-> "seq", elems |-> e] : e \in SeqsOf(Atoms) }
IntKeys == 0..(MaxLen - 1)
StrKeys == {"result"}
InnerMappings ==
    { [kind |-> "map", items |-> it, named |-> <<>>] : it \in PartialFns(IntKeys, Atoms) }
Mappings ==
    { [kind |-> "map", items |-> it, named |-> nm] :
        it \in PartialFns(IntKeys, Atoms),
        nm \in PartialFns(StrKeys, Atoms \cup Sequences \cup InnerMappings) }
Objects == Sequences \cup Mappings
Indexes == (0 - MaxLen - 1)..(MaxLen + 1)

Value(v) == [kind |-> "value", v |-> v]
Raise(e) == [kind |-> "error", e |-> e]

\* o[i] for an integer i.
SubscriptInt(o, i) ==
    IF o.kind = "seq"
    THEN LET n == Len(o.elems)
         IN  IF 0 <= i /\ i < n THEN Value(o.elems[i + 1])
             ELSE IF 0 - n <= i /\ i < 0 THEN Value(o.elems[n + i + 1])
             ELSE Raise("IndexError")
    ELSE IF o.kind = "map"
    THEN IF i \in DOMAIN o.items THEN Value(o.items[i]) ELSE Raise("KeyError")
    ELSE Raise("TypeError")

\* o[k] for a string k.
SubscriptStr(o, k) ==
    IF o.kind = "map"
    THEN IF k \in DOMAIN o.named THEN Value(o.named[k]) ELSE Raise("KeyError")
    ELSE Raise("TypeError")

\* The key the comment of line 14 names.
FallbackKeyPlural == "results"

\* The key of line 29.
FallbackKey == "result"

\* Line 29 written as obj.get("result")[index]: without the key, None is
\* subscripted.
FallbackLookupGet(o, i) ==
    LET inner == SubscriptStr(o, FallbackKey)
    IN  IF inner.kind = "error" THEN Raise("TypeError") ELSE SubscriptInt(inner.v, i)

\* Line 29: obj["result"][index].
FallbackLookup(o, i) ==
    LET inner == SubscriptStr(o, FallbackKey)
    IN  IF inner.kind = "error" THEN inner ELSE SubscriptInt(inner.v, i)

\* Line 28 written as "except LookupError".
CaughtLookupError(e) == e \in {"KeyError", "IndexError"}

\* Line 28: the errors the except clause catches.
Caught(e) == e = "KeyError"

\* Lines 26-27 with the wrapper unwrapped first when it is there.
DirectLookupResultFirst(o, i) ==
    IF o.kind = "map" /\ FallbackKey \in DOMAIN o.named
    THEN FallbackLookup(o, i)
    ELSE SubscriptInt(o, i)

\* Line 27: obj[index].
DirectLookup(o, i) == SubscriptInt(o, i)

\* Lines 26-28: the direct lookup returns, or raises into the except clause,
\* or raises past it.
TryDirect ==
    /\ gpc = "try"
    /\ LET r == DirectLookup(obj, index)
       IN  IF r.kind = "value"
           THEN gout' = [kind |-> "returned", v |-> r.v] /\ gpc' = "done"
           ELSE IF Caught(r.e)
           THEN gpc' = "except" /\ UNCHANGED gout
           ELSE gout' = [kind |-> "raised", e |-> r.e] /\ gpc' = "done"
    /\ UNCHANGED <<obj, index, fallbackTried, findVars>>

\* Line 29: the fallback lookup returns, or its error reaches the caller.
Fallback ==
    /\ gpc = "except"
    /\ fallbackTried' = TRUE
    /\ LET r == FallbackLookup(obj, index)
       IN  gout' = IF r.kind = "value"
                   THEN [kind |-> "returned", v |-> r.v]
                   ELSE [kind |-> "raised", e |-> r.e]
    /\ gpc' = "done"
    /\ UNCHANGED <<obj, index, findVars>>

FindIdle ==
    /\ fs = [dirs |-> {<<>>}, files |-> {}, noread |-> {}]
    /\ cwd = <<>>
    /\ fs0 = fs
    /\ cwd0 = cwd
    /\ importable = {}
    /\ caller = "none"
    /\ name = FileName
    /\ start = None
    /\ path = None
    /\ pc = "idle"
    /\ frames = 0
    /\ outcome = "none"
    /\ result = NoResult
    /\ error = NoError
    /\ listed = <<>>
    /\ calls = 0
    /\ first = NotCalled
    /\ addPc = "idle"
    /\ loader = "none"
    /\ loaderCalls = <<>>
    /\ stdout = <<>>

InitGet ==
    /\ obj \in Objects
    /\ index \in Indexes
    /\ gpc = "try"
    /\ gout = [kind |-> "none"]
    /\ fallbackTried = FALSE
    /\ FindIdle

NextGet ==
    \/ TryDirect
    \/ Fallback

SpecGet == InitGet /\ [][NextGet]_vars

\* ------------------------------------------------------------ claims about get_value_at_index
Returned(v) == [kind |-> "returned", v |-> v]
Raised(e) == [kind |-> "raised", e |-> e]

\* C3: whenever obj[index] succeeds, the call returns exactly that value and
\* the fallback is not consulted: s[i] for a sequence and a valid index
\* (counted from the front or, negative, from the back), m[i] for a mapping
\* that has key i, also when it has the key "result".
C3_DirectLookupWins ==
    gpc = "done" =>
        /\ (obj.kind = "seq" /\ 0 <= index /\ index < Len(obj.elems))
              => gout = Returned(obj.elems[index + 1]) /\ ~fallbackTried
        /\ (obj.kind = "seq" /\ index < 0 /\ 0 - Len(obj.elems) <= index)
              => gout = Returned(obj.elems[Len(obj.elems) + index + 1]) /\ ~fallbackTried
        /\ (obj.kind = "map" /\ index \in DOMAIN obj.items)
              => gout = Returned(obj.items[index]) /\ ~fallbackTried

C3_Witness ==
    /\ gpc = "done"
    /\ obj.kind = "map"
    /\ index \in DOMAIN obj.items
    /\ "result" \in DOMAIN obj.named
    /\ obj.named["result"].kind = "seq"
    /\ index < Len(obj.named["result"].elems)
    /\ obj.named["result"].elems[index + 1] # obj.items[index]
    /\ gout.kind = "returned"

C6_OutOfRangeSkipsFallback ==
    /\ (/\ gpc = "done"
        /\ obj.kind = "seq"
        /\ (index >= Len(obj.elems) \/ index < 0 - Len(obj.elems)))
       => gout = Raised("IndexError") /\ ~fallbackTried
    /\ (gpc = "except" \/ fallbackTried)
       => obj.kind = "map" /\ index \notin DOMAIN obj.items

C6_Witness ==
    /\ gpc = "done"
    /\ obj.kind = "seq"
    /\ Len(obj.elems) >= 1
    /\ index >= Len(obj.elems)
    /\ gout.kind = "raised"
    /\ ~fallbackTried

\* ------------------------------------------------------------ claims about find_path
\* The directory the outermost call starts in, and it with its ancestors.
StartDir == IF start = None THEN cwd ELSE Resolve(fs, cwd, start)
Ancestors(d) == { SubSeq(d, 1, k) : k \in 0..Len(d) }
HasName(d) == name \in Entries(fs, d)
Matches == { d \in Ancestors(StartDir) : HasName(d) }
Closest == CHOOSE d \in Matches : \A e \in Matches : Len(e) <= Len(d)
ListedDir(i) == Resolve(fs, cwd, listed[i])
DirPart(p) == SubSeq(p, 1, Len(p) - 1)
Relative(p) == p # None /\ p[1] # Slash
HasDotDot(p) == \E i \in 1..Len(p) : p[i] = DotDot
\* An absolute string without ".", ".." or a doubled or trailing slash.
Normalised(p) == p = None \/ p = Getcwd(Resolve(fs, cwd, p))

\* C1: when the start directory or one of its ancestors up to the root holds
\* an entry called name, find_path returns the join of the closest such
\* directory with name; a match in the start directory is returned after one
\* listing.
C1_ClosestMatchReturned ==
    (caller = "direct" /\ pc = "done" /\ fs.noread = {} /\ Matches # {})
    => /\ outcome = "returned"
       /\ result # None
       /\ result[Len(result)] = name
       /\ Resolve(fs, cwd, DirPart(result)) = Closest
       /\ HasName(StartDir) => Len(listed) = 1

\* What holds of C1 on the code: the same, for a start string that is absent
\* or absolute and normalised.
C1_HoldsForNormalisedStart ==
    (caller = "direct" /\ pc = "done" /\ fs.noread = {} /\ Matches # {}
        /\ Normalised(start))
    => /\ outcome = "returned"
       /\ result = Join(Getcwd(Closest), name)
       /\ HasName(StartDir) => Len(listed) = 1

\* C2: for a start string, absolute or relative, naming an existing directory,
\* when no directory from the start up to the root holds name, find_path
\* returns None and raises nothing.
C2_AbsentReturnsNone ==
    (caller = "direct" /\ pc = "done" /\ fs.noread = {} /\ Matches = {})
    => outcome = "returned" /\ result = None

\* What holds of C2 on the code: the same, for a start that is absent, or
\* absolute and free of "..".
C2_HoldsForAbsoluteStart ==
    (caller = "direct" /\ pc = "done" /\ fs.noread = {} /\ Matches = {}
        /\ ~Relative(start) /\ ~HasDotDot(start))
    => outcome = "returned" /\ result = None

\* C7: find_path changes neither the directory tree nor the working
\* directory, and a call repeated with the same arguments ends as the first
\* one did.
C7_Idempotent ==
    /\ fs = fs0
    /\ cwd = cwd0
    /\ (caller = "direct" /\ calls >= 2 /\ pc = "done")
       => [outcome |-> outcome, result |-> result, error |-> error] = first

C7_Witness ==
    /\ caller = "direct"
    /\ calls = 2
    /\ pc = "done"
    /\ outcome = "returned"
    /\ result # None
    /\ Len(listed) >= 2
    /\ first.result = result

\* C8: every listing is of the strict parent of the directory listed before
\* it, no directory is listed twice, and the call ends by returning: a match,
\* or None once the root has been listed.
C8_StrictAscentToRoot ==
    (caller = "direct" /\ fs.noread = {})
    => /\ \A i \in 1..(Len(listed) - 1) :
            /\ ListedDir(i) # <<>>
            /\ ListedDir(i + 1) = Parent(ListedDir(i))
       /\ \A i, j \in 1..Len(listed) : i < j => ListedDir(i) # ListedDir(j)
       /\ pc = "done" =>
            /\ outcome = "returned"
            /\ result = None =>
                 { ListedDir(i) : i \in 1..Len(listed) } = Ancestors(StartDir)

\* What holds of C8 on the code: the same, for a start string that is absent
\* or absolute and normalised.
C8_HoldsForNormalisedStart ==
    (caller = "direct" /\ fs.noread = {} /\ Normalised(start))
    => /\ \A i \in 1..(Len(listed) - 1) :
            /\ ListedDir(i) # <<>>
            /\ ListedDir(i + 1) = Parent(ListedDir(i))
       /\ \A i, j \in 1..Len(listed) : i < j => ListedDir(i) # ListedDir(j)
       /\ pc = "done" =>
            /\ outcome = "returned"
            /\ result = None =>
                 { ListedDir(i) : i \in 1..Len(listed) } = Ancestors(StartDir)

\* C9: a listing that fails ends the call with that error: it is the last
\* listing of the call, nothing is returned, and no ancestor is listed after
\* it.
C9_ListingErrorPropagates ==
    \A i \in 1..Len(listed) :
        ListdirError(fs, cwd, listed[i]) # NoError
        => /\ i = Len(listed)
           /\ pc = "done"
           /\ outcome = "raised"
           /\ error = ListdirError(fs, cwd, listed[i])
           /\ result = NoResult

C9_Witness ==
    /\ pc = "done"
    /\ outcome = "raised"
    /\ error = "PermissionError"
    /\ Len(listed) >= 2
    /\ \E d \in Ancestors(ListedDir(Len(listed))) :
          d # ListedDir(Len(listed)) /\ HasName(d)

\* C10: add_extra_model_paths calls the loader once, with the path find_path
\* returned, when the search returns a path, and never when it returns None,
\* in which case the step ends normally.
C10_LoaderCalledWithFoundPath ==
    caller = "add_extra_model_paths" =>
        /\ addPc # "done" => loaderCalls = <<>>
        /\ addPc = "done" =>
             /\ pc = "done" /\ outcome = "returned"
             /\ name = "extra_model_paths.yaml"
             /\ result # None => loaderCalls = <<result>>
             /\ result = None => loaderCalls = <<>>
        /\ (addPc = "raised" /\ pc = "done") => outcome = "raised"

C10_Witness ==
    /\ caller = "add_extra_model_paths"
    /\ addPc = "done"
    /\ Len(listed) >= 2
    /\ loaderCalls = <<Join(Getcwd(Parent(cwd)), FileName)>>

====
